---- MODULE Spec2Model ----
(***************************************************************************)
(* A model of the recursive-descent JSON parser of src/src/lib.rs.         *)
(*                                                                         *)
(* Characters are one-character strings and a character slice (&[char])    *)
(* is a sequence of them.  Every parser of lib.rs is a pure function of    *)
(* its slice and is modelled as an operator computing what the code       *)
(* computes; a loop is a RECURSIVE operator over the loop's variables.     *)
(* A result is one of                                                      *)
(*    [tag |-> "Ok",  val, len]     Ok((value, consumed_length))           *)
(*    [tag |-> "Err", error]        Err(ParseJSONError {error})            *)
(*    [tag |-> "Panic", at]         the call panicked (an index or a slice *)
(*                                  out of range), which unwinds through   *)
(*                                  every caller                           *)
(* The state machine applies one of the parsers to an input slice.         *)
(***************************************************************************)
EXTENDS Integers, Sequences, FiniteSets, TLC

VARIABLES input, called, result

vars == <<input, called, result>>

(***************************************************************************)
(* Bounds of the model.                                                    *)
(***************************************************************************)
MaxStructLen == 4
MaxNumLen == 5
MaxStrLen == 6
MaxWidth == 2

(***************************************************************************)
(* Slices.                                                                 *)
(***************************************************************************)
\* &s[n..]; the caller checks n <= Len(s), beyond which Rust panics
Drop(s, n) == SubSeq(s, n + 1, Len(s))

\* whether &s[n..] is in range
SliceOk(s, n) == n <= Len(s)

Whitespace == {" ", "\t", "\n", "\r"}

is_whitespace(c) == c \in Whitespace

Digits == {"0", "1", "2", "3", "4", "5", "6", "7", "8", "9"}

\* (*c as i64) - ('0' as i64)
DigitVal(c) ==
    CASE c = "0" -> 0 [] c = "1" -> 1 [] c = "2" -> 2 [] c = "3" -> 3
      [] c = "4" -> 4 [] c = "5" -> 5 [] c = "6" -> 6 [] c = "7" -> 7
      [] c = "8" -> 8 [] c = "9" -> 9

RECURSIVE Pow10(_)
\* 10f64.powf(k) for an integer k >= 0, exactly
Pow10(k) == IF k = 0 THEN 1 ELSE 10 * Pow10(k - 1)

(***************************************************************************)
(* enum JSONValue.  Decimal's f64 is kept exactly, as mant / 10^scale.     *)
(***************************************************************************)
Integer(n) == [type |-> "Integer", v |-> n]

Decimal(m, k) == [type |-> "Decimal", v |-> [mant |-> m, scale |-> k]]

List(items) == [type |-> "List", v |-> items]

Map(m) == [type |-> "Map", v |-> m]

Boolean(b) == [type |-> "Boolean", v |-> b]

String(s) == [type |-> "String", v |-> s]

Null == [type |-> "Null", v |-> <<>>]

\* HashMap::default()
EmptyMap == [k \in {} |-> Null]

\* HashMap::insert: the last write to a key wins
MapInsert(m, key, value) ==
    [k \in (DOMAIN m) \cup {key} |-> IF k = key THEN value ELSE m[k]]

(***************************************************************************)
(* Result<(JSONValue, usize), ParseJSONError>, and a panic.                *)
(***************************************************************************)
Ok(v, n) == [tag |-> "Ok", val |-> v, len |-> n]

OkEntry(k, v, n) == [tag |-> "Ok", key |-> k, val |-> v, len |-> n]

OkValue(v) == [tag |-> "Ok", val |-> v]

Err(msg) == [tag |-> "Err", error |-> msg]

Panic(where) == [tag |-> "Panic", at |-> where]

(***************************************************************************)
(* trim_start                                                              *)
(***************************************************************************)
RECURSIVE trimmed_count(_, _)
\* the while loop of trim_start
trimmed_count(s, trimmed) ==
    IF trimmed < Len(s) /\ is_whitespace(s[trimmed + 1])
    THEN trimmed_count(s, trimmed + 1)
    ELSE trimmed

trim_start(s) ==
    LET trimmed == trimmed_count(s, 0)
    IN  [rest |-> Drop(s, trimmed), trimmed |-> trimmed]

(***************************************************************************)
(* parse_string                                                            *)
(***************************************************************************)
\* the mutant of unescape: an escape is not decoded
unescape_raw(next) == next

\* the match on the character after a backslash
unescape(next) ==
    CASE next = "n" -> "\n"
      [] next = "t" -> "\t"
      [] next = "r" -> "\r"
      [] OTHER -> next

RECURSIVE parse_string_loop(_, _, _)
\* the while loop of parse_string; chars is the slice after the opening quote
parse_string_loop(chars, i, out) ==
    IF ~(i < Len(chars)) THEN Err("Unclosed string")
    ELSE LET c == chars[i + 1]
         IN  IF c = "\\"
             THEN IF i = Len(chars) - 1
                  THEN Err("")
                  ELSE parse_string_loop(chars, i + 2,
                                         Append(out, unescape(chars[i + 2])))
             ELSE IF c = "\""
             THEN Ok(String(out), i + 2)
             ELSE parse_string_loop(chars, i + 1, Append(out, c))

parse_string(chars) ==
    IF ~SliceOk(chars, 1) THEN Panic("parse_string: &chars[1..]")
    ELSE parse_string_loop(Drop(chars, 1), 0, <<>>)

(***************************************************************************)
(* parse_num and assemble_num                                              *)
(***************************************************************************)
assemble_num(num, decimal_index, decimal, length, negative) ==
    LET num1 == IF negative THEN -num ELSE num
    IN  IF decimal_index = -1 THEN Integer(num1)
        ELSE LET k == length - decimal_index - 1
                 \* num as f64 + 10^(-k) * decimal, over the denominator 10^k
                 sum == num1 * Pow10(k) + decimal
             IN  Decimal(IF negative THEN -sum ELSE sum, k)

RECURSIVE parse_num_loop(_, _, _, _, _, _)
\* the for loop of parse_num; pos is the iterator's position in chars
parse_num_loop(chars, pos, num, decimal_index, decimal, length) ==
    LET negative == chars[1] = "-"
    IN  IF pos > Len(chars)
        THEN Ok(assemble_num(num, decimal_index, decimal, length, negative), length)
        ELSE LET c == chars[pos]
             IN  IF c \in Digits
                 THEN IF decimal_index = -1
                      THEN parse_num_loop(chars, pos + 1, num * 10 + DigitVal(c),
                                          decimal_index, decimal, length + 1)
                      ELSE parse_num_loop(chars, pos + 1, num, decimal_index,
                                          decimal * 10 + DigitVal(c), length + 1)
                 ELSE IF c = "."
                 THEN IF decimal_index # -1
                      THEN Err("Extra decimal point in number")
                      ELSE parse_num_loop(chars, pos + 1, num, length, decimal,
                                          length + 1)
                 ELSE Ok(assemble_num(num, decimal_index, decimal, length, negative),
                         length)

parse_num(chars) ==
    IF Len(chars) = 0 THEN Panic("parse_num: chars[0]")
    ELSE IF chars[1] = "-"
         THEN parse_num_loop(chars, 2, 0, -1, 0, 1)
         ELSE parse_num_loop(chars, 1, 0, -1, 0, 0)

(***************************************************************************)
(* parse_json, parse_json_trim, parse_list, parse_map, parse_map_entry     *)
(***************************************************************************)
RECURSIVE parse_json(_), parse_json_trim(_), parse_list(_), parse_map(_)
RECURSIVE parse_list_loop(_, _, _), parse_map_loop(_, _, _), parse_map_entry(_)

\* result.1 += trimmed, on the result of parse_json(input)?
add_trimmed(r, trimmed) ==
    IF r.tag = "Ok" THEN Ok(r.val, r.len + trimmed) ELSE r

parse_json_trim(s) ==
    LET t == trim_start(s)
    IN  add_trimmed(parse_json(t.rest), t.trimmed)

parse_json(s) ==
    IF Len(s) = 0 THEN Err("Empty input")
    ELSE LET c == s[1]
         IN  CASE c = "t" -> Ok(Boolean(TRUE), 4)
               [] c = "f" -> Ok(Boolean(FALSE), 5)
               [] c = "n" -> Ok(Null, 4)
               [] c = "\"" -> parse_string(s)
               [] c = "[" -> parse_list(s)
               [] c = "{" -> parse_map(s)
               [] c \in Digits \cup {"."} -> parse_num(s)
               [] OTHER -> Err("Invalid input")

\* the body of parse_list's loop after next = parse_json_trim(chars)
parse_list_next(chars, list, length, next) ==
    IF next.tag # "Ok" THEN next
    ELSE IF ~SliceOk(chars, next.len)
    THEN Panic("parse_list: &chars[next.1..]")
    ELSE LET t == trim_start(Drop(chars, next.len))
             list1 == Append(list, next.val)
             length1 == length + next.len + t.trimmed + 1
         IN  IF Len(t.rest) = 0 THEN Err("Unclosed list")
             ELSE CASE t.rest[1] = "," ->
                           parse_list_loop(Drop(t.rest, 1), list1, length1)
                    [] t.rest[1] = "]" -> Ok(List(list1), length1)
                    [] OTHER -> Err("Improperly delimited list")

\* the loop of parse_list, from its top
parse_list_loop(chars, list, length) ==
    IF Len(chars) = 0 THEN Err("Unclosed list")
    ELSE parse_list_next(chars, list, length, parse_json_trim(chars))

parse_list(s) ==
    IF ~SliceOk(s, 1) THEN Panic("parse_list: &chars[1..]")
    ELSE LET chars == Drop(s, 1)
         IN  IF Len(chars) = 0 THEN Panic("parse_list: chars[0]")
             ELSE IF chars[1] = "]" THEN Ok(List(<<>>), 1)
             ELSE parse_list_loop(chars, <<>>, 1)

\* the end of parse_map_entry, after v = parse_json_trim(chars) for the value
map_entry_value(key, length, v) ==
    IF v.tag # "Ok" THEN v ELSE OkEntry(key, v.val, length + v.len)

\* parse_map_entry after k = parse_json_trim(chars) for the key
map_entry_key(s, k) ==
    IF k.tag # "Ok" THEN k
    ELSE IF k.val.type # "String" THEN Err("Map key is not string")
    ELSE IF ~SliceOk(s, k.len) THEN Panic("parse_map_entry: &chars[length..]")
    ELSE LET t == trim_start(Drop(s, k.len))
         IN  IF Len(t.rest) = 0 \/ t.rest[1] # ":"
             THEN Err("Improperly delimited map entry")
             ELSE map_entry_value(k.val.v, k.len + t.trimmed + 1,
                                  parse_json_trim(Drop(t.rest, 1)))

parse_map_entry(s) == map_entry_key(s, parse_json_trim(s))

\* the body of parse_map's loop after e = parse_map_entry(chars)
parse_map_next(chars, map, length, e) ==
    IF e.tag # "Ok" THEN e
    ELSE IF ~SliceOk(chars, e.len)
    THEN Panic("parse_map: &chars[parsed..]")
    ELSE LET t == trim_start(Drop(chars, e.len))
             map1 == MapInsert(map, e.key, e.val)
             length1 == length + e.len + t.trimmed + 1
         IN  IF Len(t.rest) = 0 THEN Err("Unclosed list")
             ELSE CASE t.rest[1] = "," ->
                           parse_map_loop(Drop(t.rest, 1), map1, length1)
                    [] t.rest[1] = "}" -> Ok(Map(map1), length1)
                    [] OTHER -> Err("Improperly delimited list")

\* the loop of parse_map, from its top
parse_map_loop(chars, map, length) ==
    IF Len(chars) = 0 THEN Err("Unclosed map")
    ELSE parse_map_next(chars, map, length, parse_map_entry(chars))

parse_map(s) ==
    IF ~SliceOk(s, 1) THEN Panic("parse_map: &chars[1..]")
    ELSE LET chars == Drop(s, 1)
         IN  IF Len(chars) = 0 THEN Panic("parse_map: chars[0]")
             ELSE IF chars[1] = "}" THEN Ok(Map(EmptyMap), 1)
             ELSE parse_map_loop(chars, EmptyMap, 1)

\* Ok(r?.0)
value_of(r) == IF r.tag = "Ok" THEN OkValue(r.val) ELSE r

\* <JSONValue as FromStr>::from_str; str::trim_start strips the same
\* whitespace as trim_start
from_str(s) == value_of(parse_json_trim(trim_start(s).rest))

(***************************************************************************)
(* The input slices the parsers are applied to.                            *)
(***************************************************************************)
SeqsUpTo(S, n) == UNION {[1..k -> S] : k \in 0..n}

Prefixes(s) == {SubSeq(s, 1, k) : k \in 0..Len(s)}

\* every text over the structural characters, well-formed or not
StructChars == {"[", "]", "{", "}", ",", ":", "\"", "1", " "}

StructInputs == SeqsUpTo(StructChars, MaxStructLen)

\* numerals, well-formed or not
NumChars == {"-", ".", "0", "2", "5"}

NumInputs == SeqsUpTo(NumChars, MaxNumLen)

\* the literals and their truncations
LitInputs ==
    Prefixes(<<"t", "r", "u", "e">>) \cup Prefixes(<<"f", "a", "l", "s", "e">>)
      \cup Prefixes(<<"n", "u", "l", "l">>)
      \cup {<<"[", "t">>, <<"[", "t", "r", "u", "e", "]">>, <<"[", "n", "]">>,
            <<"{", "\"", "\"", ":", "t">>, <<"{", "\"", "\"", ":", "f", "}">>}

\* string literals: an opening quote and up to MaxStrLen further characters
StrChars == {"\"", "\\", "n", "t", "r", "a"}

StrInputs == {<<"\"">> \o s : s \in SeqsUpTo(StrChars, MaxStrLen)}

\* well-formed documents of lists and maps, as syntax trees two levels deep
DocKeys == {<<"a">>, <<"b">>}

DocLeaves == {[k |-> "num"]}

ListDocs(D) == {[k |-> "list", items |-> s] : s \in SeqsUpTo(D, MaxWidth)}

MapDocs(D) ==
    {[k |-> "map", keys |-> ks, vals |-> vs] :
        ks \in {q \in SeqsUpTo(DocKeys, MaxWidth) :
                    \A i, j \in 1..Len(q) : i # j => q[i] # q[j]},
        vs \in SeqsUpTo(D, MaxWidth)}

Layer(D) == D \cup ListDocs(D) \cup {d \in MapDocs(D) : Len(d.keys) = Len(d.vals)}

Docs == Layer(Layer(DocLeaves))

RECURSIVE Render(_), RenderItems(_, _), RenderEntries(_, _, _)
\* the text of a document, without whitespace
Render(d) ==
    CASE d.k = "num" -> <<"1">>
      [] d.k = "list" -> <<"[">> \o RenderItems(d.items, 1) \o <<"]">>
      [] d.k = "map" -> <<"{">> \o RenderEntries(d.keys, d.vals, 1) \o <<"}">>

RenderItems(items, i) ==
    IF i > Len(items) THEN <<>>
    ELSE Render(items[i]) \o (IF i < Len(items) THEN <<",">> ELSE <<>>)
           \o RenderItems(items, i + 1)

RenderEntries(keys, vals, i) ==
    IF i > Len(keys) THEN <<>>
    ELSE <<"\"">> \o keys[i] \o <<"\"", ":">> \o Render(vals[i])
           \o (IF i < Len(keys) THEN <<",">> ELSE <<>>)
           \o RenderEntries(keys, vals, i + 1)

RECURSIVE Meaning(_)
\* the value tree a document denotes
Meaning(d) ==
    CASE d.k = "num" -> Integer(1)
      [] d.k = "list" -> List([i \in 1..Len(d.items) |-> Meaning(d.items[i])])
      [] d.k = "map" ->
           Map([key \in {d.keys[i] : i \in 1..Len(d.keys)} |->
                  Meaning(d.vals[CHOOSE i \in 1..Len(d.keys) : d.keys[i] = key])])

DocInputs == {Render(d) : d \in Docs}

\* the inputs the specification names
Examples ==
    { <<>>,
      <<"[">>,
      <<"{">>,
      <<"\"", "u", "n", "t", "e", "r", "m", "i", "n", "a", "t", "e", "d">>,
      <<"1", ".", "2", ".", "3">>,
      <<"{", "1", ":", " ", "2", "}">>,
      <<"[", "1", ",", " ", "2">>,
      <<"[", "[", "]", ",", "1", "]">>,
      <<"[", " ", "]">>,
      <<"{", " ", "}">>,
      <<"[", " ", "1", " ", ",", " ", "2", " ", "]">>,
      <<"[", "1", ",", "2", "]">>,
      <<"-", "3", ".", "1", "4">>,
      <<"3", ".", "1", "4">>,
      <<" ", " ", "4", "2", " ", " ">>,
      <<"\"", "h", "i", "\\", "n", "t", "h", "e", "r", "e", "\"">>,
      <<"{", "\"", "a", "\"", ":", " ", "1", ",", " ", "\"", "b", "\"", ":", " ",
        "[", "t", "r", "u", "e", ",", " ", "n", "u", "l", "l", ",", " ",
        "2", ".", "5", "]", "}">>,
      <<"{", "\"", "a", "\"", ":", "1">>,
      <<"{", "\"", "a", "\"", ":", "1", "]">>,
      <<"{", "\"", "a", "\"", " ", ":", "1", " ", "}">> }

Inputs ==
    StructInputs \cup NumInputs \cup LitInputs \cup StrInputs \cup DocInputs
      \cup Examples

(***************************************************************************)
(* The state machine: a parser is applied to the input slice.  `called`    *)
(* names the function applied, "" before the call.                         *)
(***************************************************************************)
NoResult == [tag |-> "None"]

Init ==
    /\ input \in Inputs
    /\ called = ""
    /\ result = NoResult

Apply(fn, r) ==
    /\ called' = fn
    /\ result' = r
    /\ UNCHANGED input

\* line.parse::<JSONValue>()
Call_from_str ==
    /\ called = ""
    /\ Apply("from_str", from_str(input))

Call_parse_json_trim ==
    /\ called = ""
    /\ Apply("parse_json_trim", parse_json_trim(input))

Call_parse_json ==
    /\ called = ""
    /\ Apply("parse_json", parse_json(input))

\* the sub-parsers are applied to slices that start as their contract says
Call_parse_string ==
    /\ called = ""
    /\ Len(input) > 0 /\ input[1] = "\""
    /\ Apply("parse_string", parse_string(input))

Call_parse_list ==
    /\ called = ""
    /\ Len(input) > 0 /\ input[1] = "["
    /\ Apply("parse_list", parse_list(input))

Call_parse_map ==
    /\ called = ""
    /\ Len(input) > 0 /\ input[1] = "{"
    /\ Apply("parse_map", parse_map(input))

Call_parse_map_entry ==
    /\ called = ""
    /\ Apply("parse_map_entry", parse_map_entry(input))

Call_parse_num ==
    /\ called = ""
    /\ Len(input) > 0 /\ input[1] \in Digits \cup {".", "-"}
    /\ Apply("parse_num", parse_num(input))

Next ==
    \/ Call_from_str
    \/ Call_parse_json_trim
    \/ Call_parse_json
    \/ Call_parse_string
    \/ Call_parse_list
    \/ Call_parse_map
    \/ Call_parse_map_entry
    \/ Call_parse_num

Spec == Init /\ [][Next]_vars

(***************************************************************************)
(* C1.  Malformed input is reported as a failure and no parser panics.     *)
(***************************************************************************)
MalformedExamples ==
    { <<>>,
      <<"[">>,
      <<"{">>,
      <<"\"", "u", "n", "t", "e", "r", "m", "i", "n", "a", "t", "e", "d">>,
      <<"1", ".", "2", ".", "3">>,
      <<"{", "1", ":", " ", "2", "}">>,
      <<"[", "1", ",", " ", "2">> }

\* C1: whatever the input, a call of the parse operation or of a sub-parser
\* ends with a value or a ParseJSONError, never with a panic, and the parse
\* operation fails on each of the listed malformed inputs.
C1_NeverPanics ==
    /\ called # "" => result.tag \in {"Ok", "Err"}
    /\ (called = "from_str" /\ input \in MalformedExamples) => result.tag = "Err"

(***************************************************************************)
(* C2.  A well-formed document of lists and maps parses to its own tree.   *)
(***************************************************************************)
\* C2: the parse operation applied to the text of a well-formed document of
\* lists and maps (nested empty lists and maps included) succeeds with the
\* value tree the document denotes: same elements in order, same entries,
\* same nesting.
C2_StructurePreserved ==
    (called = "from_str" /\ input \in DocInputs) =>
        \A d \in Docs : input = Render(d) => result = OkValue(Meaning(d))

(***************************************************************************)
(* C3.  A consumed-length never exceeds the slice.                         *)
(***************************************************************************)
\* C3: whenever parse_json, parse_json_trim or a sub-parser returns
\* successfully, its consumed-length is at most the length of its slice.
C3_ConsumedWithinSlice ==
    (called \in {"parse_json", "parse_json_trim", "parse_string", "parse_list",
                 "parse_map", "parse_map_entry", "parse_num"}
       /\ result.tag = "Ok") => result.len <= Len(input)

(***************************************************************************)
(* C4.  A list or map consumes exactly its bracketed span.                 *)
(***************************************************************************)
\* a well-formed list or map that is the whole slice, so that its span from
\* the opening to the matching closing bracket is the slice's length
SpanInputs ==
    {s \in DocInputs : s[1] \in {"[", "{"}}
      \cup {<<"[", " ", "1", " ", ",", " ", "2", " ", "]">>,
            <<"{", "\"", "a", "\"", " ", ":", "1", " ", "}">>}

\* C4: on a well-formed list or map the list / map sub-parser succeeds and
\* its consumed-length is the number of characters from the opening bracket
\* through the matching closing bracket; for "[]" it is 2.
C4_ConsumesSpan ==
    (called \in {"parse_list", "parse_map"} /\ input \in SpanInputs) =>
        result.tag = "Ok" /\ result.len = Len(input)

(***************************************************************************)
(* C5, C7.  Numerals.                                                      *)
(***************************************************************************)
AllDigits(s) == Len(s) > 0 /\ \A i \in 1..Len(s) : s[i] \in Digits

Unsigned(s) == IF Len(s) > 0 /\ s[1] = "-" THEN Tail(s) ELSE s

Sign(s) == IF Len(s) > 0 /\ s[1] = "-" THEN -1 ELSE 1

RECURSIVE PlaceValue(_, _)
\* the number a digit string denotes: the sum of its digits' place values
PlaceValue(s, i) ==
    IF i > Len(s) THEN 0
    ELSE DigitVal(s[i]) * Pow10(Len(s) - i) + PlaceValue(s, i + 1)

IsIntNumeral(s) == AllDigits(Unsigned(s))

\* the places of a dot that splits the unsigned numeral into digit+ . digit+
DotPlaces(s) ==
    {p \in 2..(Len(Unsigned(s)) - 1) :
        /\ Unsigned(s)[p] = "."
        /\ AllDigits(SubSeq(Unsigned(s), 1, p - 1))
        /\ AllDigits(SubSeq(Unsigned(s), p + 1, Len(Unsigned(s))))}

IsDecNumeral(s) == DotPlaces(s) # {}

\* C5: on an integer numeral (an optional '-' and digits) the parse operation
\* returns Integer with the exact signed value, and the consumed-length is
\* the numeral's length.
C5_IntegerExact ==
    IsIntNumeral(input) =>
        /\ called = "from_str" =>
              result = OkValue(Integer(Sign(input) * PlaceValue(Unsigned(input), 1)))
        /\ called \in {"parse_json_trim", "parse_json"} =>
              result = Ok(Integer(Sign(input) * PlaceValue(Unsigned(input), 1)),
                          Len(input))

\* C7: on a numeral '-'? digit+ '.' digit+ the number sub-parser returns
\* Decimal with the signed value of the numeral: (integer part + fraction),
\* negated once when the '-' is there.  Values are compared exactly, as
\* fractions over a power of ten.
C7_DecimalExact ==
    (called = "parse_num" /\ IsDecNumeral(input)) =>
        LET u == Unsigned(input)
            p == CHOOSE q \in DotPlaces(input) : TRUE
            ipart == PlaceValue(SubSeq(u, 1, p - 1), 1)
            frac == SubSeq(u, p + 1, Len(u))
            want == Sign(input) * (ipart * Pow10(Len(frac)) + PlaceValue(frac, 1))
        IN  /\ result.tag = "Ok"
            /\ result.val.type = "Decimal"
            /\ result.val.v.mant * Pow10(Len(frac))
                 = want * Pow10(result.val.v.scale)

(***************************************************************************)
(* C6.  Whitespace around tokens does not change the outcome.              *)
(***************************************************************************)
Delimiters == {"[", "]", "{", "}", ",", ":"}

RECURSIVE InsideString(_, _, _, _)
\* whether the gap after the first p characters of s lies inside a string
\* literal; i is the next character to scan and open says whether a literal
\* is open before it (an escape is a backslash and the character after it)
InsideString(s, p, i, open) ==
    IF i > p THEN open
    ELSE IF open /\ s[i] = "\\" THEN (i + 1 > p) \/ InsideString(s, p, i + 2, open)
    ELSE IF s[i] = "\"" THEN InsideString(s, p, i + 1, ~open)
    ELSE InsideString(s, p, i + 1, open)

\* the gaps of s (0: before the first character) that are at the start of
\* the input or next to a delimiter, outside string literals
TokenGaps(s) ==
    {p \in 0..Len(s) :
        /\ ~InsideString(s, p, 1, FALSE)
        /\ \/ p = 0
           \/ p >= 1 /\ s[p] \in Delimiters
           \/ p < Len(s) /\ s[p + 1] \in Delimiters}

InsertAt(s, p, c) == SubSeq(s, 1, p) \o <<c>> \o SubSeq(s, p + 1, Len(s))

RemoveAt(s, i) == SubSeq(s, 1, i - 1) \o SubSeq(s, i + 1, Len(s))

\* s with one whitespace character inserted at, or removed from, a token gap
WhitespaceVariants(s) ==
    {InsertAt(s, p, c) : p \in TokenGaps(s), c \in {" ", "\t", "\n"}}
      \cup {RemoveAt(s, i) :
              i \in {j \in 1..Len(s) : /\ s[j] \in {" ", "\t", "\n"}
                                       /\ j - 1 \in TokenGaps(s)
                                       /\ j \in TokenGaps(RemoveAt(s, j))}}

\* C6: when an input parses to a value, so does every variant of it with a
\* whitespace character inserted or removed at the start, between tokens or
\* around a delimiter, and to the same value.
C6_WhitespaceInsensitive ==
    (called = "from_str" /\ result.tag = "Ok") =>
        \A w \in WhitespaceVariants(input) : from_str(w) = result

(***************************************************************************)
(* C8.  The string sub-parser.                                             *)
(***************************************************************************)
RECURSIVE BackslashRun(_, _)
\* the number of consecutive backslashes that end right before place k
BackslashRun(s, k) ==
    IF k > 1 /\ s[k - 1] = "\\" THEN 1 + BackslashRun(s, k - 1) ELSE 0

\* the places of the quotes that no backslash escapes
UnescapedQuotes(s) ==
    {k \in 1..Len(s) : s[k] = "\"" /\ BackslashRun(s, k) % 2 = 0}

Least(S) == CHOOSE k \in S : \A j \in S : k <= j

RECURSIVE Decoded(_)
\* the text of a string body: each two-character escape stands for one
\* character
Decoded(s) ==
    IF s = <<>> THEN <<>>
    ELSE IF s[1] = "\\"
    THEN << CASE s[2] = "n" -> "\n" [] s[2] = "t" -> "\t" [] s[2] = "r" -> "\r"
              [] OTHER -> s[2] >> \o Decoded(SubSeq(s, 3, Len(s)))
    ELSE <<s[1]>> \o Decoded(Tail(s))

\* C8: on a slice that starts with a quote the string sub-parser succeeds
\* exactly when an unescaped quote follows; the text is then the decoded
\* characters between the quotes and the consumed-length counts the
\* characters from the opening quote through the first unescaped closing
\* quote; otherwise the sub-parser fails.
C8_StringParser ==
    called = "parse_string" =>
        LET body == Tail(input)
            closing == UnescapedQuotes(body)
        IN  IF closing = {} THEN result.tag = "Err"
            ELSE result = Ok(String(Decoded(SubSeq(body, 1, Least(closing) - 1))),
                             Least(closing) + 1)

\* a string with an escape decoded to a newline is parsed, and characters
\* follow its closing quote
C8_Witness ==
    /\ called = "parse_string"
    /\ result.tag = "Ok"
    /\ result.len < Len(input)
    /\ \E i \in 1..Len(result.val.v) : result.val.v[i] = "\n"

(***************************************************************************)
(* C9.  The map sub-parser's own errors.                                   *)
(***************************************************************************)
\* what follows the first entry of the map in s, whitespace skipped, when
\* that entry parses
AfterFirstEntry(s) ==
    trim_start(Drop(Tail(s), parse_map_entry(Tail(s)).len)).rest

FirstEntryParses(s) ==
    /\ parse_map_entry(Tail(s)).tag = "Ok"
    /\ parse_map_entry(Tail(s)).len <= Len(Tail(s))

\* C9: when the map sub-parser fails after an entry because the input ends
\* there, the error is UnclosedMap, and when the next character is neither
\* ',' nor '}' it is ImproperlyDelimitedMap: the map's own kinds, not the
\* list sub-parser's.
C9_MapErrorKinds ==
    (called = "parse_map" /\ Len(input) >= 2 /\ input[2] # "}"
       /\ FirstEntryParses(input)) =>
        /\ AfterFirstEntry(input) = <<>> => result = Err("Unclosed map")
        /\ (AfterFirstEntry(input) # <<>>
              /\ AfterFirstEntry(input)[1] \notin {",", "}"}) =>
                 result = Err("Improperly delimited map")

(***************************************************************************)
(* C10.  Every call returns, and every parsed element makes progress.      *)
(***************************************************************************)
\* C10: a call of the parse operation ends by returning a value or an
\* error, and every successful result of parse_json_trim and of
\* parse_map_entry has consumed at least one character.
C10_ReturnsWithProgress ==
    /\ called = "from_str" => result.tag \in {"Ok", "Err"}
    /\ (called \in {"parse_json_trim", "parse_map_entry"} /\ result.tag = "Ok") =>
          result.len >= 1

\* the progress half of C10 alone, which the code keeps: a successful
\* parse_json, parse_json_trim or parse_map_entry consumes a character
ProgressOnSuccess ==
    (called \in {"parse_json_trim", "parse_json", "parse_map_entry"}
       /\ result.tag = "Ok") => result.len >= 1

====
